---- MODULE Spec2Model ----
(***************************************************************************)
(* A model of hvac_core.py: the power-string helpers (assign_dual_feeds,   *)
(* aggregate_power_strings, _simulate_string_failure), the IT whitespace   *)
(* distributor and the three sizing stages.                                *)
(*                                                                         *)
(* Loads are integers (a fixed-point unit of power).  An optional value    *)
(* (Python's None or an int) is a sequence of length 0 or 1.  A Python     *)
(* dict is a function whose domain is its key set.  A reference to a unit  *)
(* object is its index in the pool `units`, so a restamp of a unit is      *)
(* seen by every holder of the reference, as in the source.                *)
(***************************************************************************)
EXTENDS Integers, Sequences, FiniteSets

VARIABLES units, aggregate, ret, sizing

vars == <<units, aggregate, ret, sizing>>

\* ------------------------------------------------------------ bounds
MaxUnits == 2
MaxLoad == 1
MaxStrings == 3

\* ------------------------------------------------------------ helpers
None == <<>>
Some(v) == <<v>>
IsNone(x) == Len(x) = 0
Val(x) == x[1]

Max2(a, b) == IF a >= b THEN a ELSE b
Min2(a, b) == IF a <= b THEN a ELSE b

RECURSIVE SumSeq(_)
SumSeq(s) == IF Len(s) = 0 THEN 0 ELSE Head(s) + SumSeq(Tail(s))

\* Python's truthiness of an optional int: None and 0 are falsy.
OrOne(x) == IF IsNone(x) \/ Val(x) = 0 THEN 1 ELSE Val(x)

\* ------------------------------------------------------------ data model
RedundancyConfig(n_required, n_extra) ==
    LET req == Max2(1, n_required)
        ext == Max2(0, n_extra)
    IN [n_required |-> req, n_extra |-> ext, n_total |-> req + ext]

PowerConsumer(idx, peak_kW, normal_kW, kind) ==
    [id |-> idx,
     peak_kW |-> Max2(0, peak_kW),
     normal_kW |-> Max2(0, normal_kW),
     kind |-> kind,
     primary_string |-> None,
     secondary_string |-> None]

ITRowUnit(idx, whitespace_id, load_kW) ==
    [fld \in {"whitespace_id"} \cup DOMAIN PowerConsumer(idx, load_kW, load_kW, "ITR") |->
        IF fld = "whitespace_id" THEN whitespace_id
        ELSE PowerConsumer(idx, load_kW, load_kW, "ITR")[fld]]

Label(u) == <<u.kind, u.id>>

\* ------------------------------------------------------------ assign_dual_feeds
StampRoundRobin(us, N_strings) ==
    [i \in 1..Len(us) |->
        [us[i] EXCEPT !.primary_string = Some(((i - 1) % N_strings) + 1),
                      !.secondary_string = None]]

\* buckets[s]: the indices of the units whose primary is string s + 1, in order.
Bucket(us, s) ==
    SelectSeq([i \in 1..Len(us) |-> i], LAMBDA i: Val(us[i].primary_string) - 1 = s)

Singles(us, s) == SelectSeq(Bucket(us, s), LAMBDA i: IsNone(us[i].secondary_string))

\* A secondary that is the bucket's own string.
SecondaryOf_OwnString(s, N_strings) == s + 1

SecondaryOf(s, N_strings) == ((s + 1) % N_strings) + 1

\* One pass of `for s in range(N_strings)`: the first `excess` single-fed units
\* of bucket s get the next string as secondary.
FeedBucket(us, s, N_strings, L_max) ==
    LET singles == Singles(us, s)
        excess == Len(singles) - L_max
    IN IF excess > 0
       THEN [i \in 1..Len(us) |->
                IF \E k \in 1..excess : singles[k] = i
                THEN [us[i] EXCEPT !.secondary_string = Some(SecondaryOf(s, N_strings))]
                ELSE us[i]]
       ELSE us

RECURSIVE FeedBuckets(_, _, _, _)
FeedBuckets(us, s, N_strings, L_max) ==
    IF s >= N_strings THEN us
    ELSE FeedBuckets(FeedBucket(us, s, N_strings, L_max), s + 1, N_strings, L_max)

\* assign_dual_feeds(units, N_strings, N_req): the restamped units and the
\* returned list of dual-fed flags.
assign_dual_feeds(us, N_strings, N_req) ==
    LET N_tot == Len(us)
    IN IF N_tot = 0 \/ N_strings = 0
       THEN [units |-> us, flags |-> [i \in 1..N_tot |-> FALSE]]
       ELSE LET L_max == Max2(0, N_tot - N_req)
                out == FeedBuckets(StampRoundRobin(us, N_strings), 0, N_strings, L_max)
            IN [units |-> out,
                flags |-> [i \in 1..N_tot |-> ~IsNone(out[i].secondary_string)]]

\* ------------------------------------------------------------ balancing
\* sorted(units, key=normal_kW, reverse=True): stable, so equal loads keep
\* their pool order.  The result is a sequence of unit indices.
\* A sort that leaves the units in pool order.
SortedDesc_PoolOrder(us, rest) ==
    [k \in 1..Cardinality(rest) |->
        CHOOSE i \in rest : Cardinality({j \in rest : j < i}) = k - 1]

RECURSIVE SortedDesc(_, _)
SortedDesc(us, rest) ==
    IF rest = {} THEN <<>>
    ELSE LET first == CHOOSE i \in rest :
                         \A j \in rest :
                            \/ us[i].normal_kW > us[j].normal_kW
                            \/ (us[i].normal_kW = us[j].normal_kW /\ i <= j)
         IN <<first>> \o SortedDesc(us, rest \ {first})

\* Mutant of LeastLoaded: every unit lands on the first string.
LeastLoaded_AlwaysFirst(loads) == 1

\* min(range(n), key=loads): the lowest index among the least loaded.
LeastLoaded(loads) ==
    CHOOSE i \in 1..Len(loads) :
        \A j \in 1..Len(loads) :
            loads[i] < loads[j] \/ (loads[i] = loads[j] /\ i <= j)

\* A balancer that restamps the primary and leaves the secondary as it was.
RECURSIVE BalanceLoop_KeepSecondary(_, _, _)
BalanceLoop_KeepSecondary(us, order, loads) ==
    IF Len(order) = 0 THEN us
    ELSE LET u == Head(order)
             idx == LeastLoaded(loads)
         IN BalanceLoop_KeepSecondary(
                [us EXCEPT ![u].primary_string = Some(idx)],
                Tail(order),
                [loads EXCEPT ![idx] = @ + us[u].normal_kW])

RECURSIVE BalanceLoop(_, _, _)
BalanceLoop(us, order, loads) ==
    IF Len(order) = 0 THEN us
    ELSE LET u == Head(order)
             idx == LeastLoaded(loads)
         IN BalanceLoop(
                [us EXCEPT ![u].primary_string = Some(idx),
                           ![u].secondary_string = None],
                Tail(order),
                [loads EXCEPT ![idx] = @ + us[u].normal_kW])

balance_primary_strings(us, active_strings) ==
    LET active == IF active_strings <= 0 THEN 1 ELSE active_strings
    IN BalanceLoop(us, SortedDesc(us, 1..Len(us)), [i \in 1..active |-> 0])

\* Mutant of clamp_primary_strings: only a missing primary is replaced, the
\* "p < 1" test is lost.
clamp_primary_strings_NoLowerClamp(us, total_strings) ==
    LET total == Max2(1, total_strings)
    IN [i \in 1..Len(us) |->
           LET p == us[i].primary_string
           IN IF IsNone(p)
              THEN [us[i] EXCEPT !.primary_string = Some(1)]
              ELSE IF Val(p) > total
                   THEN [us[i] EXCEPT !.primary_string = Some(total)]
                   ELSE us[i]]

clamp_primary_strings(us, total_strings) ==
    LET total == Max2(1, total_strings)
    IN [i \in 1..Len(us) |->
           LET p == us[i].primary_string
           IN IF IsNone(p) \/ Val(p) < 1
              THEN [us[i] EXCEPT !.primary_string = Some(1)]
              ELSE IF Val(p) > total
                   THEN [us[i] EXCEPT !.primary_string = Some(total)]
                   ELSE us[i]]

\* ------------------------------------------------------------ aggregate_power_strings
to_list(x) == IF IsNone(x) THEN <<>> ELSE Val(x)

StampOrZero(x) == IF IsNone(x) THEN 0 ELSE Val(x)

\* The highest string id already stamped on any unit of the pool (0 if none).
RECURSIVE MaxStringId(_, _)
MaxStringId(us, refs) ==
    IF Len(refs) = 0 THEN 0
    ELSE Max2(Max2(MaxStringId(us, Tail(refs)), StampOrZero(us[Head(refs)].primary_string)),
              StampOrZero(us[Head(refs)].secondary_string))

\* idx = min(max(p - 1, 0), N_tot - 1), as a one-based string id.
StringIndexOf(u, N_tot) == Min2(Max2(OrOne(u.primary_string) - 1, 0), N_tot - 1) + 1

EmptyAggregate(cfg) ==
    [strings |-> <<>>, total_peak_kW |-> 0, total_normal_kW |-> 0,
     string_normal_kW |-> <<>>, string_design_cap_kW |-> <<>>, config |-> cfg,
     total_strings |-> 0, active_strings |-> 0, units |-> <<>>]

\* Mutant of StringSummary: "loads[idx] = u.normal_kW" for "+=", so a string
\* keeps only the load of its last unit.
StringSummary_Overwrite(id, us, refs, N_tot, cap_per) ==
    LET members == SelectSeq(refs, LAMBDA i: StringIndexOf(us[i], N_tot) = id)
    IN [id |-> id,
        normal_load_kW |-> IF Len(members) = 0 THEN 0
                           ELSE us[members[Len(members)]].normal_kW,
        design_capacity_kW |-> cap_per,
        unit_ids |-> [k \in 1..Len(members) |-> Label(us[members[k]])],
        units |-> members]

StringSummary(id, us, refs, N_tot, cap_per) ==
    LET members == SelectSeq(refs, LAMBDA i: StringIndexOf(us[i], N_tot) = id)
    IN [id |-> id,
        normal_load_kW |-> SumSeq([k \in 1..Len(members) |-> us[members[k]].normal_kW]),
        design_capacity_kW |-> cap_per,
        unit_ids |-> [k \in 1..Len(members) |-> Label(us[members[k]])],
        units |-> members]

\* aggregate_power_strings: the restamped pool and the returned aggregate.
\* The four unit lists are optional sequences of unit references.
aggregate_power_strings(us, crah_units, pump_units, chiller_units, it_rows, cfg, auto_balance) ==
    LET all_units == to_list(it_rows) \o to_list(crah_units)
                        \o to_list(pump_units) \o to_list(chiller_units)
    IN IF Len(all_units) = 0
       THEN [units |-> us, aggregate |-> EmptyAggregate(cfg)]
       ELSE LET max_string_id == MaxStringId(us, all_units)
                N_tot == Max2(Max2(cfg.n_total, max_string_id), 1)
                N_req == IF cfg.n_required > N_tot THEN N_tot ELSE cfg.n_required
                active_strings == Max2(1, N_req)
                stamped == IF auto_balance
                           THEN balance_primary_strings(us, active_strings)
                           ELSE clamp_primary_strings(us, N_tot)
                total_peak_kW == SumSeq([k \in 1..Len(all_units) |-> stamped[all_units[k]].peak_kW])
                total_normal_kW == SumSeq([k \in 1..Len(all_units) |-> stamped[all_units[k]].normal_kW])
                cap_per == IF N_req > 0 THEN total_peak_kW \div N_req ELSE 0
                strings == [i \in 1..N_tot |-> StringSummary(i, stamped, all_units, N_tot, cap_per)]
            IN [units |-> stamped,
                aggregate |->
                    [strings |-> strings,
                     total_peak_kW |-> total_peak_kW,
                     total_normal_kW |-> total_normal_kW,
                     string_normal_kW |-> [i \in 1..N_tot |-> strings[i].normal_load_kW],
                     string_design_cap_kW |-> [i \in 1..N_tot |-> cap_per],
                     config |-> cfg,
                     total_strings |-> N_tot,
                     active_strings |-> active_strings,
                     units |-> all_units]]

\* ------------------------------------------------------------ _simulate_string_failure
Survivors(agg, failed_string) == {i \in 1..agg.total_strings : i # failed_string}

\* Mutant of LeastLoadedSurvivor: ties go to the highest string id.
LeastLoadedSurvivor_HighestId(survivors, loads) ==
    CHOOSE s \in survivors :
        \A t \in survivors : loads[s] < loads[t] \/ (loads[s] = loads[t] /\ s >= t)

\* min(survivors, key=loads): the lowest id among the least loaded survivors.
LeastLoadedSurvivor(survivors, loads) ==
    CHOOSE s \in survivors :
        \A t \in survivors : loads[s] < loads[t] \/ (loads[s] = loads[t] /\ s <= t)

\* A routing without the least-loaded fallback: a unit of the failed string
\* with no surviving secondary goes nowhere.
RouteTarget_NoFallback(u, failed_string, survivors, loads) ==
    LET primary == OrOne(u.primary_string)
    IN IF primary = failed_string
       THEN IF ~IsNone(u.secondary_string) /\ Val(u.secondary_string) \in survivors
            THEN u.secondary_string
            ELSE None
       ELSE Some(primary)

\* The target string of one unit (None: no string takes its load).
RouteTarget(u, failed_string, survivors, loads) ==
    LET primary == OrOne(u.primary_string)
    IN IF primary = failed_string
       THEN IF ~IsNone(u.secondary_string) /\ Val(u.secondary_string) \in survivors
            THEN u.secondary_string
            ELSE IF survivors # {}
                 THEN Some(LeastLoadedSurvivor(survivors, loads))
                 ELSE None
       ELSE Some(primary)

\* Mutant of RouteUnit: a unit that no string takes is not recorded as lost.
RouteUnit_DropLost(st, u, failed_string, survivors) ==
    LET target == RouteTarget(u, failed_string, survivors, st.loads)
    IN IF ~IsNone(target) /\ Val(target) \in DOMAIN st.loads
       THEN [st EXCEPT !.loads[Val(target)] = @ + u.normal_kW,
                       !.targets = Append(@, target)]
       ELSE [st EXCEPT !.targets = Append(@, target)]

\* The body of `for unit in aggregate.units`, on the accumulated state
\* [loads, lost_units, targets]; targets records the local `target` per unit.
RouteUnit(st, u, failed_string, survivors) ==
    LET target == RouteTarget(u, failed_string, survivors, st.loads)
    IN IF ~IsNone(target) /\ Val(target) \in DOMAIN st.loads
       THEN [st EXCEPT !.loads[Val(target)] = @ + u.normal_kW,
                       !.targets = Append(@, target)]
       ELSE [st EXCEPT !.lost_units = Append(@, Label(u)),
                       !.targets = Append(@, target)]

RECURSIVE RouteLoop(_, _, _, _, _)
RouteLoop(st, us, refs, failed_string, survivors) ==
    IF Len(refs) = 0 THEN st
    ELSE RouteLoop(RouteUnit(st, us[Head(refs)], failed_string, survivors),
                   us, Tail(refs), failed_string, survivors)

\* Mutant of InRange: the lower test is off by one ("failed_string < 0").
InRange_OffByOne(agg, failed_string) ==
    ~(failed_string < 0 \/ failed_string > agg.total_strings)

InRange(agg, failed_string) == ~(failed_string < 1 \/ failed_string > agg.total_strings)

\* _simulate_string_failure: the returned dict, and the per-unit targets.
simulate_string_failure(us, agg, failed_string) ==
    IF ~InRange(agg, failed_string)
    THEN [value |-> [failed_string |-> failed_string,
                     message |-> "Failed string outside configured range."],
          targets |-> <<>>]
    ELSE LET survivors == Survivors(agg, failed_string)
             st == RouteLoop([loads |-> [sid \in survivors |-> 0],
                              lost_units |-> <<>>, targets |-> <<>>],
                             us, agg.units, failed_string, survivors)
             remaining_required == Max2(1, Min2(agg.active_strings, Cardinality(survivors)))
             new_cap == IF remaining_required > 0
                        THEN agg.total_peak_kW \div remaining_required ELSE 0
         IN [value |-> [failed_string |-> failed_string,
                        redistributed_normal_kW |-> st.loads,
                        lost_units |-> st.lost_units,
                        design_capacity_per_string_kW |-> new_cap],
             targets |-> st.targets]

\* ------------------------------------------------------------ build_power_string_report
component_capacity(u) ==
    IF "design_capacity_kW" \in DOMAIN u THEN u.design_capacity_kW
    ELSE IF "design_hydraulic_kW" \in DOMAIN u THEN u.design_hydraulic_kW
    ELSE IF "evap_capacity_kW" \in DOMAIN u THEN u.evap_capacity_kW
    ELSE u.peak_kW

UnitSummary(u) ==
    [label |-> Label(u), kind |-> u.kind, unit_id |-> u.id,
     normal_kW |-> u.normal_kW, peak_kW |-> u.peak_kW,
     capacity_kW |-> component_capacity(u),
     whitespace_id |-> IF "whitespace_id" \in DOMAIN u THEN u.whitespace_id ELSE None]

\* One row of the report; the utilization is in thousandths.
StringReportRow(us, summary) ==
    [string_id |-> summary.id,
     normal_load_kW |-> summary.normal_load_kW,
     design_capacity_kW |-> summary.design_capacity_kW,
     utilization |-> IF summary.design_capacity_kW > 0
                     THEN (summary.normal_load_kW * 1000) \div summary.design_capacity_kW
                     ELSE 0,
     components |-> [k \in 1..Len(summary.units) |-> UnitSummary(us[summary.units[k]])]]

\* build_power_string_report: failed_string is None or an index.
build_power_string_report(us, agg, failed_string) ==
    [table |-> [i \in 1..Len(agg.strings) |-> StringReportRow(us, agg.strings[i])],
     failure_case |-> IF ~IsNone(failed_string)
                      THEN Some(simulate_string_failure(us, agg, Val(failed_string)).value)
                      ELSE None]

\* ------------------------------------------------------------ the state machine
\* units: the pool of unit objects.  aggregate: the last aggregate built
\* (None before the first).  ret: the last call and what it returned.
\* The primary stamps a caller may have left on a fresh unit: none, or an
\* invalid id (aggregate_power_strings clamps "p is None or p < 1").  Valid
\* ids come from assign_dual_feeds.
PreStamps == {None, Some(0 - 1), Some(0)}

Pools ==
    UNION {{[i \in 1..n |-> [ITRowUnit(i, 1, ld[i]) EXCEPT !.primary_string = ps[i]]]
               : ld \in [1..n -> (0 - 1)..MaxLoad], ps \in [1..n -> PreStamps]}
              : n \in 0..MaxUnits}

NoSizing == [op |-> "none"]

Init ==
    /\ units \in Pools
    /\ aggregate = None
    /\ ret = [op |-> "none"]
    /\ sizing = NoSizing

AllRefs == [i \in 1..Len(units) |-> i]

Idle == ret.op = "none"

AssignDualFeeds(N_strings, N_req) ==
    LET r == assign_dual_feeds(units, N_strings, N_req)
    IN /\ Idle
       /\ units' = r.units
       /\ ret' = [op |-> "assign_dual_feeds", N_strings |-> N_strings,
                  N_req |-> N_req, value |-> r.flags]
       /\ UNCHANGED <<aggregate, sizing>>

\* ret.before keeps the stamps the units carried into the call.
Aggregate(it_rows, n_required, n_extra, auto_balance) ==
    LET r == aggregate_power_strings(units, None, None, None, it_rows,
                                     RedundancyConfig(n_required, n_extra), auto_balance)
    IN /\ Idle
       /\ units' = r.units
       /\ aggregate' = Some(r.aggregate)
       /\ ret' = [op |-> "aggregate_power_strings", auto_balance |-> auto_balance,
                  before |-> [i \in 1..Len(units) |->
                                 <<units[i].primary_string, units[i].secondary_string>>]]
       /\ UNCHANGED sizing

\* A simulator that moves the units of the failed string onto their targets.
SimulateFailure_Restamp(failed_string) ==
    /\ Idle
    /\ ~IsNone(aggregate)
    /\ LET r == simulate_string_failure(units, Val(aggregate), failed_string)
           refs == Val(aggregate).units
       IN /\ ret' = [op |-> "simulate_string_failure", value |-> r.value,
                     targets |-> r.targets]
          /\ units' = [i \in 1..Len(units) |->
                          IF \E k \in 1..Len(r.targets) :
                                refs[k] = i /\ ~IsNone(r.targets[k])
                          THEN [units[i] EXCEPT !.primary_string =
                                   r.targets[CHOOSE k \in 1..Len(r.targets) : refs[k] = i]]
                          ELSE units[i]]
    /\ UNCHANGED <<aggregate, sizing>>

SimulateFailure(failed_string) ==
    /\ Idle
    /\ ~IsNone(aggregate)
    /\ LET r == simulate_string_failure(units, Val(aggregate), failed_string)
       IN ret' = [op |-> "simulate_string_failure", value |-> r.value,
                  targets |-> r.targets]
    /\ UNCHANGED <<units, aggregate, sizing>>

BuildReport(failed_string) ==
    /\ Idle
    /\ ~IsNone(aggregate)
    /\ LET r == build_power_string_report(units, Val(aggregate), failed_string)
       IN ret' = [op |-> "build_power_string_report", failed_string |-> failed_string,
                  table |-> r.table, failure_case |-> r.failure_case]
    /\ UNCHANGED <<units, aggregate, sizing>>

\* The caller takes the returned value; the next call can start.
Return ==
    /\ ~Idle
    /\ ret' = [op |-> "none"]
    /\ UNCHANGED <<units, aggregate, sizing>>

Next ==
    \/ \E S \in 0..MaxStrings, q \in 1..MaxUnits : AssignDualFeeds(S, q)
    \/ \E rows \in (IF Len(units) = 0 THEN {None, Some(<<>>)} ELSE {Some(AllRefs)}),
          q \in 1..MaxStrings, x \in 0..MaxStrings, b \in BOOLEAN :
          q + x <= MaxStrings /\ Aggregate(rows, q, x, b)
    \/ \E f \in 0..(MaxStrings + 1) : SimulateFailure(f)
    \/ \E f \in {None, Some(1), Some(MaxStrings + 1)} : BuildReport(f)
    \/ Return

Spec == Init /\ [][Next]_vars

\* ------------------------------------------------------------ sizing
\* Powers and thermal loads are in millionths of a kW.  Efficiencies are in
\* thousandths, the COP in tenths, temperatures in K, pressure in Pa, head in m.
\* The dT and efficiency floors of 1e-6 do not bind on the inputs drawn here.
kW == 1000 * 1000

CRAHUnit(idx, cap_kW, peak_kW, normal_kW, whitespace_id) ==
    [id |-> idx, peak_kW |-> Max2(0, peak_kW), normal_kW |-> Max2(0, normal_kW),
     kind |-> "CRAH", primary_string |-> None, secondary_string |-> None,
     design_capacity_kW |-> cap_kW, whitespace_id |-> whitespace_id]

PumpUnit(idx, hyd_kW, peak_kW, normal_kW) ==
    [id |-> idx, peak_kW |-> Max2(0, peak_kW), normal_kW |-> Max2(0, normal_kW),
     kind |-> "PUMP", primary_string |-> None, secondary_string |-> None,
     design_hydraulic_kW |-> hyd_kW]

ChillerUnit(idx, evap_cap_kW, peak_kW, normal_kW) ==
    [id |-> idx, peak_kW |-> Max2(0, peak_kW), normal_kW |-> Max2(0, normal_kW),
     kind |-> "CHLR", primary_string |-> None, secondary_string |-> None,
     evap_capacity_kW |-> evap_cap_kW]

\* Mutant of distribute_it_load: the per-row divisor is the total row count.
distribute_it_load_TotalDivisor(IT_kW, n_whitespaces, row_cfg) ==
    LET n_ws == Max2(1, n_whitespaces)
        total_load == Max2(0, IT_kW)
        load_per_ws == total_load \div n_ws
        load_per_row == load_per_ws \div row_cfg.n_total
        n_rows == row_cfg.n_total
    IN [white_spaces |->
            [w \in 1..n_ws |->
                [id |-> w, it_load_kW |-> load_per_ws,
                 row_ids |-> [k \in 1..n_rows |-> (w - 1) * n_rows + k]]],
        rows |->
            [r \in 1..(n_ws * n_rows) |->
                ITRowUnit(r, ((r - 1) \div n_rows) + 1, load_per_row)]]

\* distribute_it_load: the whitespaces and the row units, numbered across
\* the whitespaces.
distribute_it_load(IT_kW, n_whitespaces, row_cfg) ==
    LET n_ws == Max2(1, n_whitespaces)
        total_load == Max2(0, IT_kW)
        load_per_ws == total_load \div n_ws
        load_per_row == IF row_cfg.n_required > 0
                        THEN load_per_ws \div row_cfg.n_required ELSE 0
        n_rows == row_cfg.n_total
    IN [white_spaces |->
            [w \in 1..n_ws |->
                [id |-> w, it_load_kW |-> load_per_ws,
                 row_ids |-> [k \in 1..n_rows |-> (w - 1) * n_rows + k]]],
        rows |->
            [r \in 1..(n_ws * n_rows) |->
                ITRowUnit(r, ((r - 1) \div n_rows) + 1, load_per_row)]]

cp_air == 1005
rho_air_x10 == 12
cp_w == 4180
g_x100 == 981

\* max(1e-3, eta_a * eta_b) in ten-thousandths, from factors in thousandths.
EtaTot(eta_a, eta_b) == Max2(10, (eta_a * eta_b) \div 100)

size_crah_single(IT_kW, dT_air_K, SP_air_Pa, eta_fan, eta_motor, crah_cfg) ==
    IF IT_kW <= 0
    THEN [units |-> <<>>, thermal_out |-> 0, power |-> 0]
    ELSE LET mdot == IT_kW \div (cp_air * dT_air_K)
             Vdot == (mdot * 10) \div rho_air_x10
             eta_tot == EtaTot(eta_fan, eta_motor)
             P_fan_total_kW == ((Vdot * SP_air_Pa * 100) \div eta_tot) * 100
             N_req == crah_cfg.n_required
             N_tot == crah_cfg.n_total
             fan_peak == P_fan_total_kW \div N_req
             fan_norm == P_fan_total_kW \div N_tot
             cap_per == (IT_kW \div N_req) + fan_peak
         IN [units |-> [i \in 1..N_tot |-> CRAHUnit(i, cap_per, fan_peak, fan_norm, None)],
             thermal_out |-> IT_kW + P_fan_total_kW,
             power |-> P_fan_total_kW]

\* The loop of size_crah over the whitespaces: the units are renumbered across
\* the whitespaces and stamped with their whitespace id.
RECURSIVE SizeCrahLoop(_, _, _, _, _, _, _)
SizeCrahLoop(acc, wss, dT_air_K, SP_air_Pa, eta_fan, eta_motor, crah_cfg) ==
    IF Len(wss) = 0 THEN acc
    ELSE LET ws == Head(wss)
             one == size_crah_single(ws.it_load_kW, dT_air_K, SP_air_Pa,
                                     eta_fan, eta_motor, crah_cfg)
             base == Len(acc.units)
             renumbered == [i \in 1..Len(one.units) |->
                               [one.units[i] EXCEPT !.id = base + i,
                                                    !.whitespace_id = Some(ws.id)]]
         IN SizeCrahLoop([units |-> acc.units \o renumbered,
                          thermal_out |-> acc.thermal_out + one.thermal_out,
                          power |-> acc.power + one.power],
                         Tail(wss), dT_air_K, SP_air_Pa, eta_fan, eta_motor, crah_cfg)

\* A size_crah that sizes one CRAH set on the total load, whatever the whitespaces.
size_crah_IgnoreWhitespaces(IT_kW, dT_air_K, SP_air_Pa, eta_fan, eta_motor, crah_cfg, white_spaces) ==
    size_crah_single(IT_kW, dT_air_K, SP_air_Pa, eta_fan, eta_motor, crah_cfg)

\* size_crah: white_spaces is None or a list; an empty list counts as None.
size_crah(IT_kW, dT_air_K, SP_air_Pa, eta_fan, eta_motor, crah_cfg, white_spaces) ==
    IF ~IsNone(white_spaces) /\ Len(Val(white_spaces)) > 0
    THEN SizeCrahLoop([units |-> <<>>, thermal_out |-> 0, power |-> 0],
                      Val(white_spaces), dT_air_K, SP_air_Pa, eta_fan, eta_motor, crah_cfg)
    ELSE size_crah_single(IT_kW, dT_air_K, SP_air_Pa, eta_fan, eta_motor, crah_cfg)

size_pumps(Q_cwl_kW, dT_water_K, head_m, eta_pump, eta_motor, pump_cfg) ==
    IF Q_cwl_kW <= 0
    THEN [units |-> <<>>, thermal_out |-> Q_cwl_kW, power |-> 0]
    ELSE LET mdot_w == IF dT_water_K <= 0 THEN 0
                       ELSE Q_cwl_kW \div (cp_w * dT_water_K)
             head == Max2(0, head_m)
             P_hyd_kW == (g_x100 * head * mdot_w) \div 100
             eta_tot == EtaTot(eta_pump, eta_motor)
             P_pump_total_kW == IF head > 0 /\ mdot_w > 0
                                THEN ((P_hyd_kW * 100) \div eta_tot) * 100 ELSE 0
             N_req == pump_cfg.n_required
             N_tot == pump_cfg.n_total
             motor_peak == P_pump_total_kW \div N_req
             motor_norm == P_pump_total_kW \div N_tot
             hyd_per == P_hyd_kW \div N_req
         IN [units |-> [i \in 1..N_tot |-> PumpUnit(i, hyd_per, motor_peak, motor_norm)],
             thermal_out |-> Q_cwl_kW + P_pump_total_kW,
             power |-> P_pump_total_kW]

size_chillers(Q_evap_kW, COP, ch_cfg) ==
    IF Q_evap_kW <= 0 \/ COP <= 0
    THEN [units |-> <<>>, thermal_out |-> Q_evap_kW, power |-> 0]
    ELSE LET P_ch_total_kW == (Q_evap_kW \div COP) * 10
             N_req == ch_cfg.n_required
             N_tot == ch_cfg.n_total
             comp_peak == P_ch_total_kW \div N_req
             comp_norm == P_ch_total_kW \div N_tot
             evap_cap == Q_evap_kW \div N_req
         IN [units |-> [i \in 1..N_tot |-> ChillerUnit(i, evap_cap, comp_peak, comp_norm)],
             thermal_out |-> Q_evap_kW + P_ch_total_kW,
             power |-> P_ch_total_kW]

\* The form defaults of the application.
dt_air == 10
sp_air == 300
eta_fan_default == 600
eta_motor_default == 950
dt_water == 6
pump_head == 30
eta_pump_default == 750
eta_pump_motor_default == 950
cop_chiller == 50

\* The inputs of the sizing calls.
MaxLoadSteps == 2
MaxWhitespaces == 2
MaxSizingRequired == 3
MaxSizingExtra == 1
LoadStep == 200 * kW
ThermalLoads == {k * LoadStep : k \in (0 - 1)..MaxLoadSteps}
SizingConfigs ==
    {RedundancyConfig(q, x) : q \in 1..MaxSizingRequired, x \in 0..MaxSizingExtra}
COPs == {0 - cop_chiller, 0, cop_chiller}

\* sizing: the last sizing call, its inputs and what it returned.
Distribute(IT_kW, n_whitespaces, row_cfg) ==
    LET r == distribute_it_load(IT_kW, n_whitespaces, row_cfg)
    IN /\ sizing' = [op |-> "distribute_it_load", input |-> IT_kW,
                     n_whitespaces |-> n_whitespaces, cfg |-> row_cfg,
                     white_spaces |-> r.white_spaces, units |-> r.rows]
       /\ UNCHANGED <<units, aggregate, ret>>

\* size_crah on the whitespaces of the distribution just made, as run_simulation calls it.
SizeCrahWhitespaces(crah_cfg) ==
    /\ sizing.op = "distribute_it_load"
    /\ LET r == size_crah(sizing.input, dt_air, sp_air, eta_fan_default,
                          eta_motor_default, crah_cfg, Some(sizing.white_spaces))
       IN sizing' = [op |-> "size_crah", input |-> sizing.input, whitespaces |-> TRUE,
                     white_spaces |-> sizing.white_spaces,
                     cfg |-> crah_cfg, units |-> r.units,
                     thermal_out |-> r.thermal_out, power |-> r.power]
    /\ UNCHANGED <<units, aggregate, ret>>

SizeCrah(IT_kW, crah_cfg) ==
    LET r == size_crah(IT_kW, dt_air, sp_air, eta_fan_default, eta_motor_default,
                       crah_cfg, None)
    IN /\ sizing' = [op |-> "size_crah", input |-> IT_kW, whitespaces |-> FALSE,
                     cfg |-> crah_cfg, units |-> r.units,
                     thermal_out |-> r.thermal_out, power |-> r.power]
       /\ UNCHANGED <<units, aggregate, ret>>

SizePumps(Q_cwl_kW, pump_cfg) ==
    LET r == size_pumps(Q_cwl_kW, dt_water, pump_head, eta_pump_default,
                        eta_pump_motor_default, pump_cfg)
    IN /\ sizing' = [op |-> "size_pumps", input |-> Q_cwl_kW, cfg |-> pump_cfg,
                     units |-> r.units, thermal_out |-> r.thermal_out, power |-> r.power]
       /\ UNCHANGED <<units, aggregate, ret>>

SizeChillers(Q_evap_kW, COP, ch_cfg) ==
    LET r == size_chillers(Q_evap_kW, COP, ch_cfg)
    IN /\ sizing' = [op |-> "size_chillers", input |-> Q_evap_kW, COP |-> COP,
                     cfg |-> ch_cfg, units |-> r.units,
                     thermal_out |-> r.thermal_out, power |-> r.power]
       /\ UNCHANGED <<units, aggregate, ret>>

SizingInit ==
    /\ units = <<>>
    /\ aggregate = None
    /\ ret = [op |-> "none"]
    /\ sizing = NoSizing

SizingNext ==
    \/ \E L \in ThermalLoads, W \in 0..MaxWhitespaces, c \in SizingConfigs :
          Distribute(L, W, c)
    \/ \E c \in SizingConfigs : SizeCrahWhitespaces(c)
    \/ \E L \in ThermalLoads, c \in SizingConfigs : SizeCrah(L, c)
    \/ \E c \in SizingConfigs :
          \/ \E Q \in ThermalLoads : SizePumps(Q, c)
          \/ sizing.op = "size_crah" /\ SizePumps(sizing.thermal_out, c)
    \/ \E c \in SizingConfigs, COP \in COPs :
          \/ \E Q \in ThermalLoads : SizeChillers(Q, COP, c)
          \/ sizing.op = "size_pumps" /\ SizeChillers(sizing.thermal_out, COP, c)

SpecSizing == SizingInit /\ [][SizingNext]_vars

\* ------------------------------------------------------------ properties
Agg == Val(aggregate)

RECURSIVE SumOver(_, _)
SumOver(f, S) ==
    IF S = {} THEN 0
    ELSE LET x == CHOOSE y \in S : TRUE IN f[x] + SumOver(f, S \ {x})

AfterAggregate == ret.op = "aggregate_power_strings"
AfterDualFeeds == ret.op = "assign_dual_feeds"
AfterSimulate == ret.op = "simulate_string_failure"
ValidFailure ==
    AfterSimulate /\ ret.value.failed_string \in 1..Agg.total_strings

\* The normal load of the unit of the aggregate's pool that carries a label.
NormalOfLabel(l) ==
    units[CHOOSE i \in 1..Len(units) : Label(units[i]) = l].normal_kW

\* C1: after a failure simulation with a valid index on an aggregate of a
\* non-empty pool, the loads redistributed over the survivors plus the loads
\* of the units named in lost_units add up to the aggregate's total_normal_kW.
C1_FailureConservation ==
    (ValidFailure /\ Len(Agg.units) > 0) =>
        LET v == ret.value
        IN SumOver(v.redistributed_normal_kW, DOMAIN v.redistributed_normal_kW)
             + SumSeq([k \in 1..Len(v.lost_units) |-> NormalOfLabel(v.lost_units[k])])
           = Agg.total_normal_kW

\* A failure of a loaded string whose units move to a survivor.
C1_Witness ==
    /\ ValidFailure
    /\ Agg.total_strings >= 2
    /\ \E i \in 1..Len(units) :
          /\ units[i].primary_string = Some(ret.value.failed_string)
          /\ units[i].normal_kW > 0
    /\ \E i \in 1..Len(units) :
          /\ units[i].primary_string # Some(ret.value.failed_string)
          /\ units[i].normal_kW > 0

\* C2: in every aggregate built, under either policy, the per-string normal
\* loads add up to total_normal_kW, which is the sum of normal_kW over the units.
C2_BalancerConservation ==
    ~IsNone(aggregate) =>
        /\ SumSeq([i \in 1..Len(Agg.strings) |-> Agg.strings[i].normal_load_kW])
             = Agg.total_normal_kW
        /\ SumSeq([k \in 1..Len(Agg.units) |-> units[Agg.units[k]].normal_kW])
             = Agg.total_normal_kW

\* A manual aggregate of two units with at least two loaded strings.
C2_Witness ==
    /\ AfterAggregate /\ ~ret.auto_balance
    /\ \E i, j \in 1..Len(Agg.strings) :
          /\ i # j
          /\ Agg.strings[i].normal_load_kW > 0
          /\ Agg.strings[j].normal_load_kW > 0

\* C3: after an auto-balanced aggregation of a non-empty pool, the most and
\* the least loaded of strings 1..active_strings differ by no more than the
\* normal_kW of the largest unit.
C3_SpreadBound ==
    (AfterAggregate /\ ret.auto_balance /\ Len(Agg.units) > 0) =>
        \A i, j \in 1..Agg.active_strings :
            \E k \in 1..Len(Agg.units) :
                Agg.strings[i].normal_load_kW - Agg.strings[j].normal_load_kW
                    <= units[Agg.units[k]].normal_kW

\* An auto-balanced aggregate whose spread is exactly the largest unit's load.
C3_Witness ==
    /\ AfterAggregate /\ ret.auto_balance
    /\ Agg.active_strings >= 2
    /\ \E i, j \in 1..Agg.active_strings :
          /\ Agg.strings[i].normal_load_kW - Agg.strings[j].normal_load_kW > 0
          /\ \A k \in 1..Len(Agg.units) :
                units[Agg.units[k]].normal_kW
                    <= Agg.strings[i].normal_load_kW - Agg.strings[j].normal_load_kW

Occurrences(seq, x) == Cardinality({j \in 1..Len(seq) : seq[j] = x})

\* C5: after aggregate_power_strings returns for a non-empty pool, under
\* either policy and whatever primary stamps the units carried in, every unit
\* has a primary in [1, total_strings] and is listed once, in the summary of
\* the string that is its primary, and in no other summary.
C5_PrimaryInRange ==
    (AfterAggregate /\ Len(Agg.units) > 0) =>
        \A k \in 1..Len(Agg.units) :
            LET u == units[Agg.units[k]]
            IN /\ ~IsNone(u.primary_string)
               /\ Val(u.primary_string) \in 1..Agg.total_strings
               /\ \A s \in 1..Len(Agg.strings) :
                     Occurrences(Agg.strings[s].units, Agg.units[k])
                        = (IF Agg.strings[s].id = Val(u.primary_string) THEN 1 ELSE 0)

\* A manual aggregation of units that came in with a primary below 1.
C5_Witness ==
    /\ AfterAggregate /\ ~ret.auto_balance
    /\ Len(Agg.units) > 0
    /\ \E i \in 1..Len(ret.before) :
          /\ ~IsNone(ret.before[i][1])
          /\ Val(ret.before[i][1]) < 1

\* C6: after assign_dual_feeds on N >= 1 units with S >= 1 strings, every
\* secondary stamped is in [1, S] and differs from the unit's primary.
C6_SecondaryDiffers ==
    (AfterDualFeeds /\ Len(units) >= 1 /\ ret.N_strings >= 1) =>
        \A i \in 1..Len(units) :
            ~IsNone(units[i].secondary_string) =>
                /\ Val(units[i].secondary_string) \in 1..ret.N_strings
                /\ units[i].secondary_string # units[i].primary_string

\* C7: every aggregate returned, the one of the empty pool included, has
\* total_strings >= active_strings >= 1.
C7_StringCounts ==
    ~IsNone(aggregate) =>
        /\ Agg.total_strings >= Agg.active_strings
        /\ Agg.active_strings >= 1

\* The rules of C8, stated on the recorded targets.
FailedString == ret.value.failed_string
SurvivorIds == (1..Agg.total_strings) \ {FailedString}
EffectivePrimary(u) ==
    IF IsNone(u.primary_string) \/ u.primary_string = Some(0) THEN 1
    ELSE Val(u.primary_string)
Served(k) == ~IsNone(ret.targets[k]) /\ Val(ret.targets[k]) \in SurvivorIds
\* The load string sid has taken from the units before position k.
PriorLoad(sid, k) ==
    SumSeq([j \in 1..(k - 1) |->
               IF ret.targets[j] = Some(sid) THEN units[Agg.units[j]].normal_kW ELSE 0])
HasSurvivingSecondary(u) ==
    ~IsNone(u.secondary_string) /\ Val(u.secondary_string) \in SurvivorIds

\* The positions, in pool order, of the units no string has taken.
LostPositions == SelectSeq([k \in 1..Len(Agg.units) |-> k], LAMBDA k : ~Served(k))

\* C8: with a valid failed index the units are routed in pool order: a unit
\* whose primary survives stays on it; a unit of the failed string goes to its
\* secondary if that survives, else to the survivor least loaded so far (the
\* lowest id among equals), else, with no survivor, it is recorded in
\* lost_units and no string takes its load.
C8_RoutingRules ==
    ValidFailure =>
        /\ Len(ret.targets) = Len(Agg.units)
        /\ \A k \in 1..Len(Agg.units) :
              LET u == units[Agg.units[k]]
                  t == ret.targets[k]
              IN /\ EffectivePrimary(u) \in SurvivorIds => t = Some(EffectivePrimary(u))
                 /\ (EffectivePrimary(u) = FailedString /\ HasSurvivingSecondary(u))
                       => t = u.secondary_string
                 /\ (EffectivePrimary(u) = FailedString /\ ~HasSurvivingSecondary(u)
                        /\ SurvivorIds # {})
                       => /\ Served(k)
                          /\ \A s \in SurvivorIds :
                                \/ PriorLoad(Val(t), k) < PriorLoad(s, k)
                                \/ (PriorLoad(Val(t), k) = PriorLoad(s, k) /\ Val(t) <= s)
                 /\ (EffectivePrimary(u) = FailedString /\ SurvivorIds = {})
                       => IsNone(t)
        /\ DOMAIN ret.value.redistributed_normal_kW = SurvivorIds
        /\ \A s \in SurvivorIds :
              ret.value.redistributed_normal_kW[s] = PriorLoad(s, Len(Agg.units) + 1)
        /\ ret.value.lost_units
             = [j \in 1..Len(LostPositions) |-> Label(units[Agg.units[LostPositions[j]]])]

\* A unit of the failed string, with no secondary, that passes over the lowest
\* survivor because an earlier unit already loaded it.
C8_Witness ==
    /\ ValidFailure
    /\ \E k \in 1..Len(Agg.units) :
          LET u == units[Agg.units[k]]
          IN /\ EffectivePrimary(u) = FailedString
             /\ IsNone(u.secondary_string)
             /\ Served(k)
             /\ \E s \in SurvivorIds : s < Val(ret.targets[k]) /\ PriorLoad(s, k) > 0

\* C9: a failed index outside [1, total_strings] (any index, for the aggregate
\* of an empty pool) returns a result that carries a message and no
\* redistributed loads, no lost-unit list and no new design capacity.
C9_DiagnosticResult ==
    (AfterSimulate /\ ~(ret.value.failed_string \in 1..Agg.total_strings)) =>
        /\ "message" \in DOMAIN ret.value
        /\ "redistributed_normal_kW" \notin DOMAIN ret.value
        /\ "lost_units" \notin DOMAIN ret.value
        /\ "design_capacity_per_string_kW" \notin DOMAIN ret.value

\* An index below 1 on an aggregate of a loaded pool.
C9_Witness ==
    /\ AfterSimulate
    /\ ret.value.failed_string < 1
    /\ Agg.total_strings >= 1
    /\ "message" \in DOMAIN ret.value

\* ------------------------------------------------------------ sizing properties
Abs(x) == IF x < 0 THEN 0 - x ELSE x

\* a equals b within a relative tolerance of 1e-6.
WithinTolerance(a, b) == Abs(a - b) <= Abs(b) \div 1000000

RowLoadSum == SumSeq([i \in 1..Len(sizing.units) |-> sizing.units[i].normal_kW])

AfterDistribute ==
    /\ sizing.op = "distribute_it_load"
    /\ sizing.input >= 0
    /\ sizing.n_whitespaces >= 1

\* C4 as stated: for every L >= 0, W >= 1 and row config (any r_extra >= 0),
\* the normal loads of the returned rows add up to L within 1e-6.
C4_RowSumEqualsLoad ==
    AfterDistribute => WithinTolerance(RowLoadSum, sizing.input)

\* C4: for every L >= 0, W >= 1 and row config, the W * r_tot rows returned
\* each carry (L / W) / r_req, so their normal loads add up to
\* L * r_tot / r_req within 1e-6, which is L when r_extra = 0.
C4_RowSumScaled ==
    AfterDistribute =>
        /\ Len(sizing.units) = sizing.n_whitespaces * sizing.cfg.n_total
        /\ WithinTolerance(RowLoadSum,
                           (sizing.input \div sizing.cfg.n_required) * sizing.cfg.n_total)
        /\ sizing.cfg.n_extra = 0 => WithinTolerance(RowLoadSum, sizing.input)

\* A positive load spread over two whitespaces with a redundant row in each.
C4_Witness ==
    /\ AfterDistribute
    /\ sizing.input > 0
    /\ sizing.n_whitespaces = 2
    /\ sizing.cfg.n_extra > 0
    /\ RowLoadSum > sizing.input

\* C10: each sizing stage (size_crah without whitespaces, size_pumps,
\* size_chillers), given a non-positive upstream load, or a non-positive COP
\* for the chillers, returns no units and a downstream thermal value equal to
\* the upstream load it was given.
C10_PassThrough ==
    LET stage == \/ sizing.op = "size_crah" /\ ~sizing.whitespaces
                 \/ sizing.op = "size_pumps"
                 \/ sizing.op = "size_chillers"
        degenerate == \/ sizing.input <= 0
                      \/ sizing.op = "size_chillers" /\ sizing.COP <= 0
    IN (stage /\ degenerate) =>
          /\ Len(sizing.units) = 0
          /\ sizing.thermal_out = sizing.input

\* ------------------------------------------------------------ parse_redundancy
\* The argument of parse_redundancy: None, a number, or a string, which is a
\* sequence of characters.
MaxTextLen == 4
MaxNumber == 2

Chars == {" ", "+", "1", "3"}
Digits == {"1", "3"}

NoneText == [kind |-> "none"]
NumberText(n) == [kind |-> "number", value |-> n]
StrText(s) == [kind |-> "str", chars |-> s]

RECURSIVE StripSpaces(_)
\* str(text).replace(" ", "")
StripSpaces(s) ==
    IF Len(s) = 0 THEN <<>>
    ELSE IF Head(s) = " " THEN StripSpaces(Tail(s))
    ELSE <<Head(s)>> \o StripSpaces(Tail(s))

DigitValue(c) == IF c = "1" THEN 1 ELSE 3

RECURSIVE DigitsValue(_)
DigitsValue(s) ==
    IF Len(s) = 0 THEN 0
    ELSE DigitsValue(SubSeq(s, 1, Len(s) - 1)) * 10 + DigitValue(s[Len(s)])

\* Python's int() on a string without spaces: an optional sign followed by at
\* least one digit; anything else raises ValueError.
IntOfStr(s) ==
    LET body == IF Len(s) > 0 /\ Head(s) = "+" THEN Tail(s) ELSE s
    IN IF Len(body) > 0 /\ \A k \in 1..Len(body) : body[k] \in Digits
       THEN [raised |-> FALSE, value |-> DigitsValue(body)]
       ELSE [raised |-> TRUE]

\* Position of the first "+" of s, or 0.
FirstPlus(s) ==
    IF \E k \in 1..Len(s) : s[k] = "+"
    THEN CHOOSE k \in 1..Len(s) : s[k] = "+" /\ \A j \in 1..(k - 1) : s[j] # "+"
    ELSE 0

parse_redundancy(text) ==
    IF text.kind = "none" THEN [raised |-> FALSE, value |-> RedundancyConfig(1, 0)]
    ELSE IF text.kind = "number"
    THEN [raised |-> FALSE, value |-> RedundancyConfig(text.value, 0)]
    ELSE LET s == StripSpaces(text.chars)
             k == FirstPlus(s)
         IN IF k > 0
            THEN LET req == IntOfStr(SubSeq(s, 1, k - 1))
                     extra == IntOfStr(SubSeq(s, k + 1, Len(s)))
                 IN IF req.raised \/ extra.raised THEN [raised |-> TRUE]
                    ELSE [raised |-> FALSE,
                          value |-> RedundancyConfig(req.value, extra.value)]
            ELSE LET req == IntOfStr(s)
                 IN IF req.raised THEN [raised |-> TRUE]
                    ELSE [raised |-> FALSE, value |-> RedundancyConfig(req.value, 0)]

RECURSIVE StringsUpTo(_)
StringsUpTo(n) ==
    IF n = 0 THEN {<<>>}
    ELSE StringsUpTo(n - 1)
         \cup {Append(s, c) : s \in {t \in StringsUpTo(n - 1) : Len(t) = n - 1}, c \in Chars}

Texts ==
    {NoneText} \cup {NumberText(n) : n \in (0 - 1)..MaxNumber}
               \cup {StrText(s) : s \in StringsUpTo(MaxTextLen)}

ParseRedundancy(text) ==
    /\ ret' = [op |-> "parse_redundancy", text |-> text, result |-> parse_redundancy(text)]
    /\ UNCHANGED <<units, aggregate, sizing>>

ParseInit ==
    /\ units = <<>>
    /\ aggregate = None
    /\ ret = [op |-> "none"]
    /\ sizing = NoSizing

ParseNext == \E text \in Texts : ParseRedundancy(text)

SpecParse == ParseInit /\ [][ParseNext]_vars

AfterParse == ret.op = "parse_redundancy"

\* The input is the empty string or a string of spaces only.
EmptyText(text) ==
    text.kind = "str" /\ \A k \in 1..Len(text.chars) : text.chars[k] = " "

\* C11: parse_redundancy returns required 1, extra 0, total 1, without
\* raising, for None, for the empty string and for a string of only spaces.
C11_MissingOrEmptyDefaults ==
    (AfterParse /\ (ret.text.kind = "none" \/ EmptyText(ret.text))) =>
        /\ ~ret.result.raised
        /\ ret.result.value = [n_required |-> 1, n_extra |-> 0, n_total |-> 1]

\* ------------------------------------------------------------ the CRAH example
\* size_crah was called on the two whitespaces of a 400 kW distribution with
\* the CRAH redundancy 3+1 and the default air-side parameters.
CrahExample ==
    /\ sizing.op = "size_crah" /\ sizing.whitespaces
    /\ sizing.input = 400 * kW
    /\ Len(sizing.white_spaces) = 2
    /\ sizing.cfg = RedundancyConfig(3, 1)

\* Equal to the hundredth of a kW.
About(a, b) == Abs(a - b) <= kW \div 100

CrahCountsPerWhitespace ==
    /\ Len(sizing.units) = 8
    /\ \A w \in 1..2 :
          Cardinality({i \in 1..Len(sizing.units) :
                          sizing.units[i].whitespace_id = Some(w)}) = 4

\* C12 as stated: 4 CRAH units per whitespace, 8 in total, each of design
\* capacity about 400/3 + 17.46/3 = 138.95 kW.
C12_CrahCapacityOnTotalLoad ==
    CrahExample =>
        /\ CrahCountsPerWhitespace
        /\ \A i \in 1..Len(sizing.units) :
              About(sizing.units[i].design_capacity_kW, 13895 * (kW \div 100))

\* C12 amended: 4 CRAH units per whitespace, 8 in total, each sized on its
\* whitespace's own 200 kW and 8.73 kW of fan power: a design capacity of
\* about 200/3 + 8.73/3 = 69.58 kW; the fan power summed over the whitespaces
\* is about 17.46 kW and the thermal output about 417.46 kW.
C12_CrahCapacityPerWhitespace ==
    CrahExample =>
        /\ CrahCountsPerWhitespace
        /\ \A i \in 1..Len(sizing.units) :
              /\ About(sizing.units[i].design_capacity_kW, 6958 * (kW \div 100))
              /\ About(sizing.units[i].design_capacity_kW,
                       (200 * kW) \div 3 + (873 * (kW \div 100)) \div 3)
        /\ About(sizing.power, 1746 * (kW \div 100))
        /\ About(sizing.thermal_out, 41746 * (kW \div 100))

C12_Witness ==
    /\ CrahExample
    /\ Len(sizing.units) = 8
    /\ \A w \in 1..2 : sizing.white_spaces[w].it_load_kW = 200 * kW

\* ------------------------------------------------------------ read-only queries
AfterReport == ret.op = "build_power_string_report"

\* C13: a failure simulation or a report build changes neither the aggregate
\* (strings, loads, totals, string counts) nor any unit (primary_string,
\* secondary_string, normal_kW, peak_kW); so the result recorded for a query
\* is the result the same query gives again on the state it left.
C13_QueriesDoNotMutate ==
    /\ [][(ret'.op \in {"simulate_string_failure", "build_power_string_report"})
             => (units' = units /\ aggregate' = aggregate)]_vars
    /\ [](AfterSimulate =>
             ret.value = simulate_string_failure(units, Agg, ret.value.failed_string).value)
    /\ [](AfterReport =>
             /\ ret.table = build_power_string_report(units, Agg, ret.failed_string).table
             /\ ret.failure_case
                  = build_power_string_report(units, Agg, ret.failed_string).failure_case)

\* A report with a computed failure case on an aggregate of loaded units.
C13_Witness ==
    /\ AfterReport
    /\ ~IsNone(ret.failure_case)
    /\ "lost_units" \in DOMAIN Val(ret.failure_case)
    /\ Agg.total_normal_kW > 0
    /\ Agg.total_strings >= 2

\* ------------------------------------------------------------ the order of the balancer
AutoBalanced == AfterAggregate /\ ret.auto_balance /\ Len(Agg.units) > 0

\* Unit i is placed before unit j: a larger normal load, or the same load and
\* an earlier place in the pool.
PlacedBefore(i, j) ==
    \/ units[i].normal_kW > units[j].normal_kW
    \/ units[i].normal_kW = units[j].normal_kW /\ i < j

\* The load string s had accumulated when unit i was placed.
LoadWhenPlaced(s, i) ==
    LET ahead == {j \in 1..Len(units) :
                     PlacedBefore(j, i) /\ units[j].primary_string = Some(s)}
    IN SumOver([j \in 1..Len(units) |-> units[j].normal_kW], ahead)

\* C14: after an auto-balanced aggregation, taking the units by normal load
\* descending (equal loads in pool order), each unit sits on the string of
\* 1..active_strings that was least loaded when it was placed, the lowest id
\* among equals; the strings above active_strings carry no load and no unit.
C14_GreedyOrder ==
    AutoBalanced =>
        /\ \A i \in 1..Len(units) :
              /\ ~IsNone(units[i].primary_string)
              /\ Val(units[i].primary_string) \in 1..Agg.active_strings
              /\ \A s \in 1..Agg.active_strings :
                    LET p == Val(units[i].primary_string)
                    IN \/ LoadWhenPlaced(p, i) < LoadWhenPlaced(s, i)
                       \/ LoadWhenPlaced(p, i) = LoadWhenPlaced(s, i) /\ p <= s
        /\ \A s \in (Agg.active_strings + 1)..Agg.total_strings :
              /\ Agg.strings[s].normal_load_kW = 0
              /\ Agg.strings[s].units = <<>>
              /\ Agg.strings[s].unit_ids = <<>>

\* The larger unit comes second in the pool, two strings are active and a
\* third stands by.
C14_Witness ==
    /\ AutoBalanced
    /\ Len(units) >= 2
    /\ units[1].normal_kW < units[2].normal_kW
    /\ Agg.active_strings >= 2
    /\ Agg.total_strings > Agg.active_strings
    /\ units[1].primary_string # units[2].primary_string

\* ------------------------------------------------------------ the dual-feed pass
DualFed == AfterDualFeeds /\ Len(units) >= 1 /\ ret.N_strings >= 1

\* The units whose primary is string p, and those of them with a secondary.
OnString(p) == {i \in 1..Len(units) : units[i].primary_string = Some(p)}
FedOnString(p) == {i \in OnString(p) : ~IsNone(units[i].secondary_string)}

Allowance == Max2(0, Len(units) - ret.N_req)

\* The string after p, wrapping from the last string to 1.
NextString(p, S) == IF p >= S THEN 1 ELSE p + 1

\* C15: after assign_dual_feeds on N >= 1 units and S >= 1 strings, unit i
\* (zero-based) has primary (i mod S) + 1; in each string's bucket exactly
\* max(0, size - L_max) units have a secondary, L_max = max(0, N - required);
\* each secondary is the string after the primary, wrapping from S to 1; and
\* the returned flag of a unit tells whether it has a secondary.
C15_DualFeedAssignment ==
    DualFed =>
        /\ \A i \in 1..Len(units) :
              units[i].primary_string = Some(((i - 1) % ret.N_strings) + 1)
        /\ \A p \in 1..ret.N_strings :
              /\ Cardinality(FedOnString(p))
                    = Max2(0, Cardinality(OnString(p)) - Allowance)
              /\ Cardinality(OnString(p) \ FedOnString(p)) <= Allowance
        /\ \A i \in 1..Len(units) :
              ~IsNone(units[i].secondary_string) =>
                  Val(units[i].secondary_string)
                      = NextString(Val(units[i].primary_string), ret.N_strings)
        /\ Len(ret.value) = Len(units)
        /\ \A i \in 1..Len(units) :
              ret.value[i] = ~IsNone(units[i].secondary_string)

\* Two strings, two units, no allowance: each unit is fed from the other string.
C15_Witness ==
    /\ DualFed
    /\ ret.N_strings = 2
    /\ Len(units) = 2
    /\ units[1].secondary_string = Some(2)
    /\ units[2].secondary_string = Some(1)
    /\ ret.value = <<TRUE, TRUE>>

\* C16: in each string's bucket, in unit order, the first L_max units stay
\* single-fed and every unit after them has a secondary.
C16_ExcessAfterAllowance ==
    DualFed =>
        \A p \in 1..ret.N_strings :
            \A i \in OnString(p) :
                LET place == Cardinality({j \in OnString(p) : j <= i})
                IN ~IsNone(units[i].secondary_string) <=> place > Allowance

\* ------------------------------------------------------------ lost units
\* Every unit still carries the primary under which the aggregate lists it.
NotReassigned ==
    \A s \in 1..Len(Agg.strings) :
        \A k \in 1..Len(Agg.strings[s].units) :
            units[Agg.strings[s].units[k]].primary_string = Some(s)

\* C17: a failure simulation with a valid index on an aggregate whose units
\* have not been restamped since it was built: with two strings or more no
\* unit is lost and every unit's load is taken by a survivor; with a single
\* string every unit of the pool is listed in lost_units, in pool order, and
\* the map of redistributed loads is empty.
C17_LostOnlyWithoutSurvivor ==
    (ValidFailure /\ NotReassigned) =>
        LET v == ret.value
        IN /\ Agg.total_strings >= 2 =>
                /\ v.lost_units = <<>>
                /\ \A k \in 1..Len(Agg.units) : Served(k)
                /\ SumOver(v.redistributed_normal_kW, DOMAIN v.redistributed_normal_kW)
                      = Agg.total_normal_kW
           /\ Agg.total_strings = 1 =>
                /\ v.lost_units = [k \in 1..Len(Agg.units) |-> Label(units[Agg.units[k]])]
                /\ DOMAIN v.redistributed_normal_kW = {}

\* Two strings or more, and a loaded unit with no secondary on the string that fails.
C17_Witness ==
    /\ ValidFailure /\ NotReassigned
    /\ Agg.total_strings >= 2
    /\ \E i \in 1..Len(units) :
          /\ units[i].primary_string = Some(FailedString)
          /\ IsNone(units[i].secondary_string)
          /\ units[i].normal_kW > 0

\* ------------------------------------------------------------ dual feeds and aggregation
NoSecondary(us) == \A i \in 1..Len(us) : IsNone(us[i].secondary_string)

\* The stamps the units carry, as ret.before records them.
Stamps(us) == [i \in 1..Len(us) |-> <<us[i].primary_string, us[i].secondary_string>>]

\* The units went into the aggregation with primaries a dual-feed pass stamps.
StampedBefore == \A i \in 1..Len(ret.before) :
                    ~IsNone(ret.before[i][1]) /\ Val(ret.before[i][1]) >= 1

\* C18: an auto-balanced aggregation leaves no unit with a secondary, whatever
\* dual feeds the units carried in; no later step gives a unit a secondary
\* but a new assign_dual_feeds; and a failure simulation on units without
\* secondaries sends each unit of the failed string to the survivor least
\* loaded so far (the lowest id among equals).  A manual aggregation leaves
\* the primaries and secondaries stamped by assign_dual_feeds as they were.
C18_AutoBalanceDropsDualFeeds ==
    /\ []((AfterAggregate /\ ret.auto_balance /\ Len(Agg.units) > 0) => NoSecondary(units))
    /\ [][(NoSecondary(units) /\ ~NoSecondary(units')) => ret'.op = "assign_dual_feeds"]_vars
    /\ []((ValidFailure /\ NoSecondary(units) /\ SurvivorIds # {}) =>
             \A k \in 1..Len(Agg.units) :
                 EffectivePrimary(units[Agg.units[k]]) = FailedString =>
                     /\ Served(k)
                     /\ \A s \in SurvivorIds :
                           LET t == Val(ret.targets[k])
                           IN \/ PriorLoad(t, k) < PriorLoad(s, k)
                              \/ PriorLoad(t, k) = PriorLoad(s, k) /\ t <= s)
    /\ []((AfterAggregate /\ ~ret.auto_balance /\ StampedBefore) =>
             Stamps(units) = ret.before)

\* A default aggregation of units that came in dual-fed.
C18_Witness ==
    /\ AfterAggregate /\ ret.auto_balance
    /\ Len(Agg.units) >= 2
    /\ \A i \in 1..Len(ret.before) : ~IsNone(ret.before[i][2])
    /\ NoSecondary(units)
    /\ Agg.total_strings >= 2
====
